---- MODULE Spec2Model ----
(***************************************************************************)
(* Model of scraper/vatican_scraper.py: the VaticanScraper catalog         *)
(* (document_exists, add_or_update_document), its persistence              *)
(* (load_existing_data, save_data) and the run loop scrape_all_documents.  *)
(***************************************************************************)
EXTENDS Integers, Sequences, FiniteSets, TLC

VARIABLES
  documents,   \* self.documents: the dict {"metadata": {...}, "documents": [...]}
  clock,       \* the next value datetime.now() returns
  calls,       \* the candidate records passed to add_or_update_document so far
  ret,         \* index of the Document the last add_or_update_document returned
  file,        \* the content of self.data_file on disk
  raised,      \* the exception that ended the process, "" while none
  pc,          \* where the process is: new, ready, loop, saving, done, crashed
  site,        \* vatican.va: its pages, and the urls whose fetch may time out
  run,         \* how many times main() has been started
  document_urls, \* the list find_pope_leo_pages returned
  processed,   \* scrape_all_documents: processed
  new_docs,    \* scrape_all_documents: new_docs
  updated_docs, \* scrape_all_documents: updated_docs
  doc_info,    \* scrape_all_documents: the last extract_document_info result
  saves,       \* the save_data calls of the current process, in order
  failed,      \* the urls of existing pages whose fetch has returned None
  writer,      \* save_data: the open file handle and what is still to be written
  observed,    \* what a concurrent reader of data_file last read
  first_p,     \* extract_document_info: the first <p> of the page, if any
  description  \* extract_document_info: description

storeVars == <<documents, clock, calls, ret>>
fileVars == <<file, raised, pc, saves, writer, observed>>
runVars == <<site, run, document_urls, processed, new_docs, updated_docs, doc_info, failed>>
textVars == <<first_p, description>>
vars == <<storeVars, fileVars, runVars, textVars>>

(***************************************************************************)
(* Bounds and input sets                                                   *)
(***************************************************************************)
MaxCalls == 3

\* A URL string, kept as its directory segments and its file name.
Url(lang, section, name) ==
  [dirs |-> <<"content", "leo-xiii", lang, section, "documents">>, name |-> name, ext |-> "html"]

UrlLa == Url("la", "encyclicals", "rerum-novarum")
UrlEn == Url("en", "encyclicals", "rerum-novarum")
UrlIt == Url("it", "letters", "aeterni-patris")

Urls == {UrlLa, UrlEn, UrlIt}

Titles == {"Rerum Novarum", "Aeterni Patris"}

\* The keyword arguments doc_type, date, language, description of a call.
MetaArgs ==
  { [type |-> "", date |-> "", language |-> "", description |-> ""],
    [type |-> "Encyclical", date |-> "15 May 1891", language |-> "Latin",
     description |-> "Rights and duties of capital and labour"],
    [type |-> "Letter", date |-> "1891-05-15", language |-> "English",
     description |-> "On the restoration of Christian philosophy"] }

Candidates ==
  { [title |-> t, url |-> u, type |-> m.type, date |-> m.date,
     language |-> m.language, description |-> m.description] :
      t \in Titles, u \in Urls, m \in MetaArgs }

\* What the human consumer may write into a Document's annotation fields.
UserValues ==
  { [read |-> TRUE, comments |-> "x", quotes |-> <<"q">>] }

(***************************************************************************)
(* Python helpers                                                          *)
(***************************************************************************)
\* x in list
Contains(s, x) == \E k \in 1..Len(s) : s[k] = x

\* dict.get(key, default)
Get(d, key, default) == IF key \in DOMAIN d THEN d[key] ELSE default

Min(S) == CHOOSE i \in S : \A j \in S : i <= j

Last(s) == s[Len(s)]

Range(s) == {s[k] : k \in 1..Len(s)}

(***************************************************************************)
(* The catalog                                                             *)
(***************************************************************************)
\* load_existing_data when no file exists: the fresh catalog.
EmptyCatalog ==
  [metadata |-> [last_updated |-> 0, pope |-> "Leo XIII", source |-> "vatican.va",
                 total_documents |-> 0],
   documents |-> <<>>]

document_exists_url_only(docs, title, url) ==
  LET hits == {i \in 1..Len(docs) : docs[i].url = url}
  IN  IF hits = {} THEN 0 ELSE Min(hits)

\* document_exists looking for the url in each Document's "urls" list too.
document_exists_any_url(docs, title, url) ==
  LET hits == {i \in 1..Len(docs) :
                 \/ docs[i].title = title
                 \/ docs[i].url = url
                 \/ ("urls" \in DOMAIN docs[i] /\ Contains(docs[i].urls, url))}
  IN  IF hits = {} THEN 0 ELSE Min(hits)

\* document_exists: the index of the first Document with this title or this
\* url, 0 for None.
document_exists(docs, title, url) ==
  LET hits == {i \in 1..Len(docs) : docs[i].title = title \/ docs[i].url = url}
  IN  IF hits = {} THEN 0 ELSE Min(hits)

\* The else branch of add_or_update_document: the new Document. It has no
\* "urls" key.
new_doc(c, now) ==
  [title |-> c.title, url |-> c.url, type |-> c.type, date |-> c.date,
   language |-> c.language,
   languages |-> IF c.language # "" THEN <<c.language>> ELSE <<>>,
   description |-> c.description,
   read |-> FALSE, comments |-> "", quotes |-> <<>>,
   added_date |-> now]

\* Lines 78-83: a url not yet listed is appended to "urls" (created from the
\* current url when the key is missing) and becomes the primary url.
merge_url_no_promote(existing, c) ==
  IF ~Contains(Get(existing, "urls", <<existing.url>>), c.url)
  THEN LET withUrls == IF "urls" \in DOMAIN existing
                       THEN existing
                       ELSE ("urls" :> <<existing.url>>) @@ existing
       IN  [withUrls EXCEPT !.urls = Append(@, c.url)]
  ELSE existing

merge_url_always_append(existing, c) ==
  LET withUrls == IF "urls" \in DOMAIN existing
                  THEN existing
                  ELSE ("urls" :> <<existing.url>>) @@ existing
  IN  [withUrls EXCEPT !.urls = Append(@, c.url), !.url = c.url]

merge_url(existing, c) ==
  IF ~Contains(Get(existing, "urls", <<existing.url>>), c.url)
  THEN LET withUrls == IF "urls" \in DOMAIN existing
                       THEN existing
                       ELSE ("urls" :> <<existing.url>>) @@ existing
       IN  [withUrls EXCEPT !.urls = Append(@, c.url), !.url = c.url]
  ELSE existing

\* Lines 86-87: doc_type fills an empty "type".
merge_type_overwrite(existing, c) ==
  IF c.type # "" THEN [existing EXCEPT !.type = c.type] ELSE existing

merge_type(existing, c) ==
  IF c.type # "" /\ Get(existing, "type", "") = ""
  THEN [existing EXCEPT !.type = c.type] ELSE existing

\* Lines 88-89: date fills an empty "date".
merge_date(existing, c) ==
  IF c.date # "" /\ Get(existing, "date", "") = ""
  THEN [existing EXCEPT !.date = c.date] ELSE existing

\* Lines 90-94: a language not yet listed is appended to "languages".
merge_language_always_append(existing, c) ==
  IF c.language # ""
  THEN IF "languages" \notin DOMAIN existing
       THEN ("languages" :> <<c.language>>) @@ existing
       ELSE [existing EXCEPT !.languages = Append(@, c.language)]
  ELSE existing

merge_language(existing, c) ==
  IF c.language # "" /\ ~Contains(Get(existing, "languages", <<>>), c.language)
  THEN IF "languages" \notin DOMAIN existing
       THEN ("languages" :> <<c.language>>) @@ existing
       ELSE [existing EXCEPT !.languages = Append(@, c.language)]
  ELSE existing

\* Lines 95-96: description fills an empty "description".
merge_description(existing, c) ==
  IF c.description # "" /\ Get(existing, "description", "") = ""
  THEN [existing EXCEPT !.description = c.description] ELSE existing

update_existing_resets_annotations(existing, c) ==
  [merge_description(merge_language(merge_date(merge_type(
     merge_url(existing, c), c), c), c), c)
   EXCEPT !.read = FALSE, !.comments = "", !.quotes = <<>>]

\* The if branch of add_or_update_document (lines 76-98): the matched
\* Document after the merge of candidate c.
update_existing(existing, c) ==
  merge_description(merge_language(merge_date(merge_type(
    merge_url(existing, c), c), c), c), c)

\* add_or_update_document putting a new Document first (insert(0, new_doc)).
add_or_update_document_prepends(docs, c, now) ==
  LET i == document_exists(docs, c.title, c.url)
  IN  IF i # 0
      THEN [docs EXCEPT ![i] = update_existing(docs[i], c)]
      ELSE <<new_doc(c, now)>> \o docs

\* add_or_update_document appending a Document whether or not one matches.
add_or_update_document_always_appends(docs, c, now) == Append(docs, new_doc(c, now))

\* add_or_update_document on the list self.documents["documents"].
add_or_update_document(docs, c, now) ==
  LET i == document_exists(docs, c.title, c.url)
  IN  IF i # 0
      THEN [docs EXCEPT ![i] = update_existing(docs[i], c)]
      ELSE Append(docs, new_doc(c, now))

\* The index of the Document add_or_update_document returns.
returned(docs, c) ==
  LET i == document_exists(docs, c.title, c.url)
  IN  IF i # 0 THEN i ELSE Len(docs) + 1

(***************************************************************************)
(* Persistence: the catalog file                                           *)
(***************************************************************************)
\* The text of a file is a sequence of tokens; json.dump writes them in order.
Tok(t) == [t |-> t]

None == [none |-> TRUE]

\* soup.select_one('p') when the page has no <p> element.
NoParagraph == [found |-> FALSE, text |-> <<>>]

\* No file at self.data_file.
NoFile == [exists |-> FALSE, text |-> <<>>]

FileOf(text) == [exists |-> TRUE, text |-> text]

\* json.dump(self.documents, f): the metadata, then each Document in catalog
\* order, between the braces of the top-level object.
json_dump(data) ==
  <<Tok("{"), [t |-> "metadata", v |-> data.metadata]>>
    \o [k \in 1..Len(data.documents) |-> [t |-> "doc", v |-> data.documents[k]]]
    \o <<Tok("}")>>

\* Whether the text is a complete dump of a catalog.
IsCatalogText(text) ==
  /\ Len(text) >= 3
  /\ text[1].t = "{"
  /\ text[2].t = "metadata"
  /\ text[Len(text)].t = "}"
  /\ \A k \in 3..(Len(text) - 1) : text[k].t = "doc"

\* open(..., encoding='utf-8') and json.load(f): the value read, or the
\* exception raised. An empty or cut-off text is no JSON value.
json_load(text) ==
  IF Len(text) = 2 /\ text[1].t = "[" /\ text[2].t = "]"
  THEN [error |-> "", type |-> "list"]
  ELSE IF Len(text) = 2 /\ text[1].t = "{" /\ text[2].t = "}"
  THEN [error |-> "", type |-> "dict", value |-> <<>>]
  ELSE IF IsCatalogText(text)
  THEN [error |-> "", type |-> "dict",
        value |-> [metadata |-> text[2].v,
                   documents |-> [k \in 1..(Len(text) - 3) |-> text[k + 2].v]]]
  ELSE [error |-> "JSONDecodeError"]

\* load_existing_data: the catalog self.documents becomes, and the exception
\* that leaves the constructor ("" when it returns).
load_existing_data(f) ==
  IF f.exists
  THEN LET r == json_load(f.text)
       IN  IF r.error = "JSONDecodeError"
           THEN [raised |-> "", data |-> EmptyCatalog]
           ELSE IF r.type # "dict"
           THEN [raised |-> "AttributeError", data |-> None]
           ELSE [raised |-> "", data |-> r.value]
  ELSE [raised |-> "", data |-> EmptyCatalog]

\* Lines 57-58 of save_data: the exception raised there, "" when none.
save_raises(data) ==
  IF "metadata" \notin DOMAIN data \/ "documents" \notin DOMAIN data
  THEN "KeyError" ELSE ""

\* save_data without its line 58: total_documents is not recomputed.
stamp_metadata_keeps_count(data, now) == [data EXCEPT !.metadata.last_updated = now]

\* Lines 57-58 of save_data: the catalog with its metadata recomputed.
stamp_metadata(data, now) ==
  [data EXCEPT !.metadata.last_updated = now,
               !.metadata.total_documents = Len(data.documents)]

\* An entry of the log of save_data calls: how many candidates had been
\* processed, and whether it was the call after the loop.
SaveAt(n, final) == [at |-> n, final |-> final]

\* The file handle of save_data while no write is under way.
Closed == [open |-> FALSE, prior |-> NoFile, pending |-> <<>>]

Drop(seq, k) == SubSeq(seq, k + 1, Len(seq))

Take(seq, k) == SubSeq(seq, 1, k)

(***************************************************************************)
(* Operations on the store                                                 *)
(***************************************************************************)
Init ==
  /\ documents = EmptyCatalog
  /\ clock = 1
  /\ calls = <<>>
  /\ ret = 0
  /\ file = NoFile
  /\ raised = ""
  /\ pc = "ready"
  /\ saves = <<>>
  /\ writer = Closed
  /\ observed = None
  /\ site = [pages |-> <<>>, flaky |-> {}]
  /\ run = 0
  /\ document_urls = <<>>
  /\ processed = 0
  /\ new_docs = 0
  /\ updated_docs = 0
  /\ doc_info = None
  /\ failed = {}
  /\ first_p = NoParagraph
  /\ description = None

\* A call of add_or_update_document(**c). On a loaded dict without the key
\* "documents" the scan of document_exists raises KeyError.
Upsert(c) ==
  /\ pc = "ready"
  /\ Len(calls) < MaxCalls
  /\ IF "documents" \notin DOMAIN documents
     THEN /\ raised' = "KeyError"
          /\ pc' = "crashed"
          /\ UNCHANGED <<documents, ret, clock>>
     ELSE /\ documents' = [documents EXCEPT
                             !.documents = add_or_update_document(@, c, clock)]
          /\ ret' = returned(documents.documents, c)
          /\ clock' = IF document_exists(documents.documents, c.title, c.url) = 0
                      THEN clock + 1 ELSE clock
          /\ UNCHANGED <<raised, pc>>
  /\ calls' = Append(calls, c)
  /\ UNCHANGED <<file, saves, writer, observed, runVars, textVars>>

\* The human consumer annotates Document i (read status, comments, quotes).
UserEdit(i, v) ==
  /\ pc = "ready"
  /\ i \in 1..Len(documents.documents)
  /\ documents' = [documents EXCEPT !.documents[i].read = v.read,
                                    !.documents[i].comments = v.comments,
                                    !.documents[i].quotes = v.quotes]
  /\ documents' # documents
  /\ ret' = 0
  /\ UNCHANGED <<clock, calls, fileVars, runVars, textVars>>

Next ==
  \/ \E c \in Candidates : Upsert(c)
  \/ \E i \in 1..Len(documents.documents), v \in UserValues : UserEdit(i, v)

Spec == Init /\ [][Next]_vars

(***************************************************************************)
(* Properties of the store (specification Spec)                            *)
(***************************************************************************)
Docs == documents.documents

\* The elements of a Document's "urls" list; none while the key is missing.
alternateUrls(d) == IF "urls" \in DOMAIN d THEN d.urls ELSE <<>>

NoDuplicates(s) == \A j, k \in 1..Len(s) : j # k => s[j] # s[k]

\* C1: after any sequence of upserts from the empty catalog no two distinct
\* Documents have the same title and no two have the same url.
C1_CatalogUniqueness ==
  \A i, j \in 1..Len(Docs) :
    i # j => Docs[i].title # Docs[j].title /\ Docs[i].url # Docs[j].url

\* C2: an upsert leaves read, comments, quotes and added_date of every
\* Document already in the catalog as they were; only the upsert that appends
\* a Document writes them (to their defaults and the current time).
C2_UserFieldsPreserved ==
  [][ calls' # calls =>
        /\ \A i \in 1..Len(Docs) :
             /\ Docs'[i].read = Docs[i].read
             /\ Docs'[i].comments = Docs[i].comments
             /\ Docs'[i].quotes = Docs[i].quotes
             /\ Docs'[i].added_date = Docs[i].added_date
        /\ Len(Docs') > Len(Docs) =>
             /\ Docs'[Len(Docs')].read = FALSE
             /\ Docs'[Len(Docs')].comments = ""
             /\ Docs'[Len(Docs')].quotes = <<>>
             /\ Docs'[Len(Docs')].added_date = clock ]_vars

\* An upsert has just matched and changed the urls of a Document that the
\* user had marked read and commented.
C2_Witness ==
  /\ ret \in 1..Len(Docs)
  /\ Docs[ret].read = TRUE
  /\ Docs[ret].comments = "x"
  /\ Docs[ret].quotes = <<"q">>
  /\ Len(alternateUrls(Docs[ret])) >= 2
  /\ Last(calls).url = Last(alternateUrls(Docs[ret]))

\* C3: for type, date and description: an upsert never changes a non-empty
\* field, and an empty field of the matched Document takes the candidate's
\* non-empty value.
C3_FirstWriterWins ==
  [][ calls' # calls =>
        \A i \in 1..Len(Docs) : \A f \in {"type", "date", "description"} :
          /\ Docs[i][f] # "" => Docs'[i][f] = Docs[i][f]
          /\ (Docs[i][f] = "" /\ ret' = i /\ Last(calls')[f] # "")
               => Docs'[i][f] = Last(calls')[f]
          /\ (Docs[i][f] = "" /\ (ret' # i \/ Last(calls')[f] = ""))
               => Docs'[i][f] = "" ]_vars

\* A Document created with every field empty was filled by a second upsert
\* (type Encyclical) and has just been matched by a third that supplies type
\* Letter.
C3_Witness ==
  /\ Len(calls) = 3
  /\ ret = 1
  /\ Len(Docs) = 1
  /\ calls[1].type = "" /\ calls[1].date = "" /\ calls[1].description = ""
  /\ calls[2].type = "Encyclical"
  /\ calls[3].type = "Letter"
  /\ Docs[1].type = "Encyclical"
  /\ Docs[1].date = calls[2].date
  /\ Docs[1].description = calls[2].description

\* C4: every Document's url is a member of its urls.
C4_PrimaryUrlInUrls ==
  \A i \in 1..Len(Docs) :
    "urls" \in DOMAIN Docs[i] /\ Contains(Docs[i].urls, Docs[i].url)

\* C5: two upserts with the same title and different urls into the empty
\* catalog give one Document whose urls are the two urls in call order and
\* whose url is the second one.
C5_IdentityMerge ==
  (Len(calls) = 2 /\ calls[1].title = calls[2].title /\ calls[1].url # calls[2].url)
    => /\ Len(Docs) = 1
       /\ alternateUrls(Docs[1]) = <<calls[1].url, calls[2].url>>
       /\ Docs[1].url = calls[2].url

C5_Witness ==
  /\ Len(calls) = 2
  /\ calls[1].title = calls[2].title
  /\ calls[1].url # calls[2].url
  /\ ret = 1

\* C6: no step removes an element from a Document's urls or languages, and
\* neither list ever holds an element twice.
C6_MonotonicSets ==
  [][ /\ \A i \in 1..Len(Docs) :
           /\ i <= Len(Docs')
           /\ Range(alternateUrls(Docs[i])) \subseteq Range(alternateUrls(Docs'[i]))
           /\ Range(Docs[i].languages) \subseteq Range(Docs'[i].languages)
      /\ \A i \in 1..Len(Docs') :
           /\ NoDuplicates(alternateUrls(Docs'[i]))
           /\ NoDuplicates(Docs'[i].languages) ]_vars

\* A Document has grown to three urls and two languages, and the last upsert
\* matched it with a url and a language it already had.
C6_Witness ==
  /\ ret \in 1..Len(Docs)
  /\ Len(alternateUrls(Docs[ret])) = 3
  /\ Len(Docs[ret].languages) = 2
  /\ Last(calls).language # ""
  /\ Last(calls).language # Last(Docs[ret].languages)

(***************************************************************************)
(* The catalog file: construction, save_data step by step, and a reader    *)
(***************************************************************************)
MaxSaves == 2

\* A catalog as an earlier run left it on disk, annotated by the user.
StoredCatalog ==
  LET d == new_doc([title |-> "Rerum Novarum", url |-> UrlLa, type |-> "Encyclical",
                    date |-> "15 May 1891", language |-> "Latin", description |-> ""], 0)
  IN  [metadata |-> [last_updated |-> 0, pope |-> "Leo XIII", source |-> "vatican.va",
                     total_documents |-> 1],
       documents |-> <<[d EXCEPT !.read = TRUE, !.comments = "x"]>>]

\* What may be found at self.data_file when the scraper is constructed.
InitialFiles ==
  { NoFile,
    FileOf(<<>>),
    FileOf(<<Tok("garbage")>>),
    FileOf(<<Tok("["), Tok("]")>>),
    FileOf(<<Tok("{"), Tok("}")>>),
    FileOf(Take(json_dump(StoredCatalog), 2)),
    FileOf(json_dump(StoredCatalog)) }

\* The candidates upserted between saves.
FileCandidates ==
  { c \in Candidates : c.type = "Encyclical" /\ c.title = "Rerum Novarum"
                       /\ c.url \in {UrlLa, UrlEn} }

InitFile ==
  /\ documents = None
  /\ clock = 1
  /\ calls = <<>>
  /\ ret = 0
  /\ file \in InitialFiles
  /\ raised = ""
  /\ pc = "new"
  /\ saves = <<>>
  /\ writer = Closed
  /\ observed = None
  /\ site = [pages |-> <<>>, flaky |-> {}]
  /\ run = 0
  /\ document_urls = <<>>
  /\ processed = 0
  /\ new_docs = 0
  /\ updated_docs = 0
  /\ doc_info = None
  /\ failed = {}
  /\ first_p = NoParagraph
  /\ description = None

\* VaticanScraper(data_file): __init__ with load_existing_data.
Construct ==
  /\ pc = "new"
  /\ LET r == load_existing_data(file)
     IN  /\ raised' = r.raised
         /\ documents' = r.data
         /\ pc' = IF r.raised = "" THEN "ready" ELSE "crashed"
  /\ UNCHANGED <<clock, calls, ret, file, saves, writer, observed, runVars, textVars>>

\* save_data up to open(self.data_file, 'w'): the metadata is recomputed and
\* the file is created or cut to length 0.
SaveOpen ==
  /\ pc = "ready"
  /\ Len(saves) < MaxSaves
  /\ IF save_raises(documents) # ""
     THEN /\ raised' = save_raises(documents)
          /\ pc' = "crashed"
          /\ UNCHANGED <<documents, clock, file, writer>>
     ELSE /\ documents' = stamp_metadata(documents, clock)
          /\ clock' = clock + 1
          /\ writer' = [open |-> TRUE, prior |-> file, pending |-> json_dump(documents')]
          /\ file' = FileOf(<<>>)
          /\ pc' = "saving"
          /\ UNCHANGED raised
  /\ UNCHANGED <<calls, ret, saves, observed, runVars, textVars>>

\* json.dump: the buffered writer flushes the next k tokens to the file.
SaveWrite(k) ==
  /\ pc = "saving"
  /\ k \in 1..Len(writer.pending)
  /\ file' = FileOf(file.text \o Take(writer.pending, k))
  /\ writer' = [writer EXCEPT !.pending = Drop(@, k)]
  /\ UNCHANGED <<storeVars, raised, pc, saves, observed, runVars, textVars>>

\* The end of the with block: what is left is flushed and the file closed.
SaveClose ==
  /\ pc = "saving"
  /\ file' = FileOf(file.text \o writer.pending)
  /\ writer' = Closed
  /\ pc' = "ready"
  /\ saves' = Append(saves, SaveAt(processed, FALSE))
  /\ UNCHANGED <<storeVars, raised, observed, runVars, textVars>>

\* Another process reads the whole of data_file.
Read ==
  /\ observed' = file
  /\ observed' # observed
  /\ UNCHANGED <<storeVars, file, raised, pc, saves, writer, runVars, textVars>>

NextFile ==
  \/ Construct
  \/ \E c \in FileCandidates : Upsert(c)
  \/ SaveOpen
  \/ \E k \in 1..Len(writer.pending) : SaveWrite(k)
  \/ SaveClose
  \/ Read

SpecFile == InitFile /\ [][NextFile]_vars

\* C9: constructing the store over an absent or invalid catalog file never
\* raises and gives the empty catalog, and a later save_data succeeds.
C9_LoadRecovery ==
  /\ raised = ""
  /\ (pc = "ready" /\ calls = <<>> /\ saves = <<>>
        /\ (~file.exists \/ ~IsCatalogText(file.text)))
       => documents = EmptyCatalog

\* C10: a read of data_file made while save_data has it open returns the
\* complete prior content or the complete new dump.
C10_AtomicPersist ==
  [][ (observed' # observed /\ writer.open)
        => observed' \in {writer.prior, FileOf(json_dump(documents))} ]_vars

(***************************************************************************)
(* The web site, link discovery and extraction                             *)
(***************************************************************************)
MaxRuns == 2

MaxCandidates == 25

SaveEvery == 10

\* search_urls of find_pope_leo_pages.
SeedUrl(dirs, name) == [dirs |-> dirs, name |-> name, ext |-> "html"]

search_urls ==
  << SeedUrl(<<"content", "leo-xiii", "en">>, "encyclicals.index"),
     SeedUrl(<<"content", "leo-xiii", "la">>, "encyclicals.index"),
     SeedUrl(<<"content", "leo-xiii", "it">>, "encyclicals.index"),
     SeedUrl(<<"content", "leo-xiii", "en">>, "letters.index"),
     SeedUrl(<<"content", "leo-xiii", "la">>, "letters.index"),
     SeedUrl(<<"content", "leo-xiii", "en">>, "speeches.index"),
     SeedUrl(<<"content", "leo-xiii", "la">>, "speeches.index"),
     SeedUrl(<<"content", "leo-xiii">>, "en"),
     SeedUrl(<<"content", "leo-xiii">>, "la"),
     SeedUrl(<<"content", "leo-xiii">>, "it") >>

\* A fetched page: what the extractor's heuristics find in it (the cleaned
\* title, the first date match, the description) and the targets of its
\* <a href> elements in document order, already joined to the page's url.
Page(title, date, desc, links) ==
  [title |-> title, date |-> date, description |-> desc, links |-> links]

\* Link targets that the filter of find_pope_leo_pages has to drop.
FolderIndex == [dirs |-> <<"content", "leo-xiii", "en", "encyclicals">>,
                name |-> "index", ext |-> "html"]
PdfLink == [dirs |-> <<"content", "leo-xiii", "en", "encyclicals", "documents">>,
            name |-> "rerum-novarum", ext |-> "pdf"]
OtherPope == [dirs |-> <<"content", "pius-x", "en", "encyclicals", "documents">>,
              name |-> "pascendi", ext |-> "html"]

\* A site with three document pages; the Latin and the English page are
\* listed on two index pages each. The other seeds answer 404.
SmallSite(tLa, tEn, tIt) ==
  [pages |->
     (search_urls[1] :> Page("Encyclicals", "", "",
                             <<UrlEn, search_urls[1], FolderIndex, PdfLink, OtherPope, UrlLa>>))
     @@ (search_urls[2] :> Page("Litterae Encyclicae", "", "", <<UrlLa, UrlEn>>))
     @@ (search_urls[3] :> Page("Encicliche", "", "", <<UrlIt>>))
     @@ (UrlLa :> Page(tLa, "", "", <<>>))
     @@ (UrlEn :> Page(tEn, "15 May 1891", "Rights and duties of capital and labour", <<>>))
     @@ (UrlIt :> Page(tIt, "1891-05-15", "", <<>>)),
   flaky |-> {search_urls[3], UrlEn}]

SmallSites == {SmallSite(a, b, c) : a \in Titles, b \in Titles, c \in Titles}

\* The k-th document of a long listing.
Doc(k) == Url("en", "encyclicals", "doc" \o ToString(k))

DocTitles == <<"Rerum Novarum", "Aeterni Patris", "Immortale Dei">>

\* A site whose English encyclicals index lists n documents.
BigSite(n) ==
  [pages |->
     (search_urls[1] :> Page("Encyclicals", "", "", [k \in 1..n |-> Doc(k)]))
     @@ [u \in {Doc(k) : k \in 1..n} |->
           LET k == CHOOSE j \in 1..n : Doc(j) = u
           IN  Page(DocTitles[(k % 3) + 1], "", "", <<>>)],
   flaky |-> {Doc(3), Doc(10)}]

\* fetch_page: TRUE for a parsed page, FALSE for None. A url the site does
\* not serve always fails; a flaky one may fail.
fetch_outcomes(url) ==
  IF url \notin DOMAIN site.pages THEN {FALSE}
  ELSE IF url \in site.flaky THEN {TRUE, FALSE}
  ELSE {TRUE}

\* The filter of find_pope_leo_pages (lines 170-173) on the joined url
\* full_url found on the seed page url.
is_document_link(full_url, url) ==
  /\ \E k \in 1..Len(full_url.dirs) : full_url.dirs[k] \in {"leo-xiii", "leo_xiii"}
  /\ full_url.ext = "html"
  /\ ~(full_url.name = "index" /\ full_url.ext = "html")
  /\ full_url # url

RECURSIVE Concat(_, _)
Concat(seqs, k) == IF k > Len(seqs) THEN <<>> ELSE seqs[k] \o Concat(seqs, k + 1)

\* The elements of a sequence in order of first appearance.
Dedup(seq) ==
  LET first == {k \in 1..Len(seq) : \A j \in 1..(k - 1) : seq[j] # seq[k]}
      nth(i) == CHOOSE k \in first : Cardinality({j \in first : j <= k}) = i
  IN  [i \in 1..Cardinality(first) |-> seq[nth(i)]]

\* find_pope_leo_pages: the accepted links of the seeds whose fetch did not
\* fail (down: the seeds whose fetch fails), in order of first appearance.
find_pope_leo_pages(down) ==
  LET accepted(url) ==
        IF url \in DOMAIN site.pages /\ url \notin down
        THEN SelectSeq(site.pages[url].links, LAMBDA l : is_document_link(l, url))
        ELSE <<>>
  IN  Dedup(Concat([k \in 1..Len(search_urls) |-> accepted(search_urls[k])], 1))

\* list(all_document_links): a set has no order of its own.
Orders(S) ==
  {p \in [1..Cardinality(S) -> S] : \A i, j \in 1..Cardinality(S) : i # j => p[i] # p[j]}

\* extract_document_info for a fetched page: type and language come from
\* the url (lines 204-225).
doc_type_of(url) ==
  IF Contains(url.dirs, "encyclicals") THEN "Encyclical"
  ELSE IF Contains(url.dirs, "letters") THEN "Letter"
  ELSE IF Contains(url.dirs, "speeches") THEN "Speech"
  ELSE IF Contains(url.dirs, "apost_letters") THEN "Apostolic Letter"
  ELSE "Unknown"

language_of(url) ==
  IF Contains(url.dirs, "en") THEN "English"
  ELSE IF Contains(url.dirs, "it") THEN "Italian"
  ELSE IF Contains(url.dirs, "fr") THEN "French"
  ELSE IF Contains(url.dirs, "de") THEN "German"
  ELSE IF Contains(url.dirs, "es") THEN "Spanish"
  ELSE "Latin"

extract_document_info(url, page) ==
  [title |-> page.title, url |-> url, type |-> doc_type_of(url), date |-> page.date,
   language |-> language_of(url), description |-> page.description]

CheckpointDue_off_by_one(n) == n % SaveEvery = 1

\* Line 287: processed % 10 == 0.
CheckpointDue(n) == n % SaveEvery = 0

(***************************************************************************)
(* main(): the constructor and scrape_all_documents                        *)
(***************************************************************************)
InitRun ==
  /\ documents = None
  /\ clock = 1
  /\ calls = <<>>
  /\ ret = 0
  /\ file = NoFile
  /\ raised = ""
  /\ pc = "new"
  /\ saves = <<>>
  /\ writer = Closed
  /\ observed = None
  /\ site \in SmallSites
  /\ run = 0
  /\ document_urls = <<>>
  /\ processed = 0
  /\ new_docs = 0
  /\ updated_docs = 0
  /\ doc_info = None
  /\ failed = {}
  /\ first_p = NoParagraph
  /\ description = None

InitCheckpoint ==
  /\ documents = None
  /\ clock = 1
  /\ calls = <<>>
  /\ ret = 0
  /\ file = NoFile
  /\ raised = ""
  /\ pc = "new"
  /\ saves = <<>>
  /\ writer = Closed
  /\ observed = None
  /\ site \in {BigSite(n) : n \in 0..MaxCandidates}
  /\ run = 0
  /\ document_urls = <<>>
  /\ processed = 0
  /\ new_docs = 0
  /\ updated_docs = 0
  /\ doc_info = None
  /\ failed = {}
  /\ first_p = NoParagraph
  /\ description = None

\* main() up to the loop of scrape_all_documents: the constructor loads the
\* file, find_pope_leo_pages fetches the seeds, the counters are set to 0.
\* anyOrder: the list may come in any order; otherwise in listing order.
StartMain(anyOrder) ==
  /\ pc \in {"new", "done"}
  /\ run < MaxRuns
  /\ LET r == load_existing_data(file)
     IN  IF r.raised # ""
         THEN /\ raised' = r.raised
              /\ pc' = "crashed"
              /\ documents' = None
              /\ UNCHANGED <<saves, runVars>>
         ELSE \E down \in SUBSET {u \in site.flaky : Contains(search_urls, u)} :
                LET found == find_pope_leo_pages(down)
                IN  \E order \in (IF anyOrder THEN Orders(Range(found)) ELSE {found}) :
                      /\ documents' = r.data
                      /\ document_urls' = order
                      /\ failed' = failed \cup down
                      /\ processed' = 0
                      /\ new_docs' = 0
                      /\ updated_docs' = 0
                      /\ doc_info' = None
                      /\ saves' = <<>>
                      /\ run' = run + 1
                      /\ pc' = "loop"
                      /\ UNCHANGED <<raised, site>>
  /\ UNCHANGED <<clock, calls, ret, file, writer, observed, textVars>>

StartRun == StartMain(TRUE)

StartRunListed == StartMain(FALSE)

\* The loop body of scrape_all_documents counting a candidate whose fetch
\* failed as updated; a pass whose fetch succeeds is the one of the code.
ProcessCandidate_counts_skipped ==
  /\ pc = "loop"
  /\ processed < Len(document_urls)
  /\ \E ok \in fetch_outcomes(document_urls[processed + 1]) :
       LET url == document_urls[processed + 1]
           info == IF ok THEN extract_document_info(url, site.pages[url]) ELSE None
           existing == IF ok THEN document_exists(documents.documents, info.title, info.url)
                       ELSE 1
           merged == IF ok THEN [documents EXCEPT
                                   !.documents = add_or_update_document(@, info, clock)]
                     ELSE documents
           now == IF existing = 0 THEN clock + 1 ELSE clock
       IN  /\ doc_info' = info
           /\ failed' = IF ~ok /\ url \in DOMAIN site.pages
                        THEN failed \cup {url} ELSE failed
           /\ ret' = IF ok THEN returned(documents.documents, info) ELSE 0
           /\ updated_docs' = IF existing # 0 THEN updated_docs + 1 ELSE updated_docs
           /\ new_docs' = IF existing = 0 THEN new_docs + 1 ELSE new_docs
           /\ processed' = processed + 1
           /\ IF CheckpointDue(processed + 1)
              THEN /\ documents' = stamp_metadata(merged, now)
                   /\ file' = FileOf(json_dump(documents'))
                   /\ saves' = Append(saves, SaveAt(processed', FALSE))
                   /\ clock' = now + 1
              ELSE /\ documents' = merged
                   /\ clock' = now
                   /\ UNCHANGED <<file, saves>>
  /\ UNCHANGED <<raised, pc, calls, writer, observed, site, run, document_urls, textVars>>

\* One pass of the loop of scrape_all_documents (lines 271-288): extract,
\* upsert and count, processed += 1, save_data on every tenth.
ProcessCandidate ==
  /\ pc = "loop"
  /\ processed < Len(document_urls)
  /\ LET url == document_urls[processed + 1]
     IN  \E ok \in fetch_outcomes(url) :
           LET info == IF ok THEN extract_document_info(url, site.pages[url]) ELSE None
               due == CheckpointDue(processed + 1)
               crash == IF info # None /\ "documents" \notin DOMAIN documents
                        THEN "KeyError"
                        ELSE IF due THEN save_raises(documents) ELSE ""
               existing == IF info = None THEN 0
                           ELSE document_exists(documents.documents, info.title, info.url)
               merged == IF info = None THEN documents
                         ELSE [documents EXCEPT
                                 !.documents = add_or_update_document(@, info, clock)]
               now == IF info # None /\ existing = 0 THEN clock + 1 ELSE clock
           IN  /\ doc_info' = info
               /\ failed' = IF ~ok /\ url \in DOMAIN site.pages
                            THEN failed \cup {url} ELSE failed
               /\ IF crash # ""
                  THEN /\ raised' = crash
                       /\ pc' = "crashed"
                       /\ UNCHANGED <<documents, clock, ret, file, saves, processed,
                                      new_docs, updated_docs>>
                  ELSE /\ ret' = IF info = None THEN 0
                                 ELSE returned(documents.documents, info)
                       /\ updated_docs' = IF info # None /\ existing # 0
                                          THEN updated_docs + 1 ELSE updated_docs
                       /\ new_docs' = IF info # None /\ existing = 0
                                      THEN new_docs + 1 ELSE new_docs
                       /\ processed' = processed + 1
                       /\ IF due
                          THEN /\ documents' = stamp_metadata(merged, now)
                               /\ file' = FileOf(json_dump(documents'))
                               /\ saves' = Append(saves, SaveAt(processed', FALSE))
                               /\ clock' = now + 1
                          ELSE /\ documents' = merged
                               /\ clock' = now
                               /\ UNCHANGED <<file, saves>>
                       /\ UNCHANGED <<raised, pc>>
  /\ UNCHANGED <<calls, writer, observed, site, run, document_urls, textVars>>

\* scrape_all_documents without its line 291: the loop ends, nothing is saved.
FinalSave_no_persist ==
  /\ pc = "loop"
  /\ processed = Len(document_urls)
  /\ pc' = "done"
  /\ UNCHANGED <<documents, clock, file, saves, raised>>
  /\ UNCHANGED <<calls, ret, writer, observed, runVars, textVars>>

\* The final save of scrape_all_documents (line 291) and the report.
FinalSave ==
  /\ pc = "loop"
  /\ processed = Len(document_urls)
  /\ IF save_raises(documents) # ""
     THEN /\ raised' = save_raises(documents)
          /\ pc' = "crashed"
          /\ UNCHANGED <<documents, clock, file, saves>>
     ELSE /\ documents' = stamp_metadata(documents, clock)
          /\ file' = FileOf(json_dump(documents'))
          /\ saves' = Append(saves, SaveAt(processed, TRUE))
          /\ clock' = clock + 1
          /\ pc' = "done"
          /\ UNCHANGED raised
  /\ UNCHANGED <<calls, ret, writer, observed, runVars, textVars>>

NextRun ==
  \/ StartRun
  \/ ProcessCandidate
  \/ FinalSave

SpecRun == InitRun /\ [][NextRun]_vars

NextCheckpoint ==
  \/ StartRunListed
  \/ ProcessCandidate
  \/ FinalSave

SpecCheckpoint == InitCheckpoint /\ [][NextCheckpoint]_vars

(***************************************************************************)
(* Properties of the run (specifications SpecRun and SpecCheckpoint)       *)
(***************************************************************************)
\* C7: when no fetch of an existing page has failed, a second run of main()
\* over the same site, in any order of the candidates, changes nothing in
\* the catalog but metadata.last_updated.
C7_Idempotence ==
  [][ (run' >= 2 /\ failed' = {})
        => /\ Docs' = Docs
           /\ [documents' EXCEPT !.metadata.last_updated = 0]
                = [documents EXCEPT !.metadata.last_updated = 0] ]_vars

\* A second run over all three document pages has ended without a failed
\* fetch, the catalog holding a Document merged from two urls.
C7_Witness ==
  /\ run = 2
  /\ pc = "done"
  /\ failed = {}
  /\ Len(document_urls) = 3
  /\ updated_docs = 3
  /\ \E i \in 1..Len(Docs) : Len(alternateUrls(Docs[i])) = 2

\* The save_data calls a run has made after n processed candidates.
MidRunSaves(n) == [k \in 1..(n \div SaveEvery) |-> SaveAt(SaveEvery * k, FALSE)]

\* C8: a run over n candidates calls save_data right after each 10th
\* processed candidate, skipped ones counted, and once more after the loop.
C8_PeriodicCheckpoint ==
  /\ pc = "loop" => saves = MidRunSaves(processed)
  /\ pc = "done" => /\ processed = Len(document_urls)
                    /\ saves = Append(MidRunSaves(processed), SaveAt(processed, TRUE))

\* A run over 25 candidates, whose 10th fetch failed, has ended with saves
\* after 10, after 20 and after the loop.
C8_Witness ==
  /\ pc = "done"
  /\ run = 1
  /\ Len(document_urls) = 25
  /\ Doc(10) \in failed
  /\ saves = <<SaveAt(10, FALSE), SaveAt(20, FALSE), SaveAt(25, TRUE)>>

\* The runs over the sites whose Latin and English page are one work and
\* whose Italian page is another: a run's steps do not depend on the titles.
InitRunFair ==
  /\ InitRun
  /\ site.pages[UrlLa].title = site.pages[UrlEn].title
  /\ site.pages[UrlIt].title # site.pages[UrlEn].title

\* scrape_all_documents as the interpreter runs it: a sequential program
\* whose loop body and whose statement after the loop are executed when
\* reached, each fetch ending by its 30 s timeout (line 123) if not before.
SpecRunFair ==
  /\ InitRunFair
  /\ [][NextRun]_vars
  /\ WF_vars(ProcessCandidate)
  /\ WF_vars(FinalSave)

\* The documents of the catalog the file holds, <<>> when it holds none.
SnapshotDocs ==
  IF file.exists /\ IsCatalogText(file.text)
  THEN json_load(file.text).value.documents
  ELSE <<>>

\* C11: whichever seed and candidate fetches fail, a run that has entered
\* the loop ends, and it ends with every candidate processed, with the
\* final save_data as its last step, the file then holding the documents
\* of the catalog in memory.
C11_RunCompletion ==
  /\ [](pc = "loop" => <>(pc = "done"))
  /\ [](pc = "done" => /\ processed = Len(document_urls)
                       /\ saves # <<>>
                       /\ Last(saves) = SaveAt(Len(document_urls), TRUE)
                       /\ file.exists
                       /\ IsCatalogText(file.text)
                       /\ SnapshotDocs = Docs)
  /\ [][pc' = "done" => pc = "loop" /\ Len(saves') = Len(saves) + 1]_vars

\* A run has ended in which the fetch of a seed and the fetch of a
\* candidate failed, the other candidate being saved.
C11_Witness ==
  /\ pc = "done"
  /\ run = 1
  /\ search_urls[3] \in failed
  /\ UrlEn \in failed
  /\ Len(document_urls) = 2
  /\ Len(Docs) = 1
  /\ SnapshotDocs = Docs

(***************************************************************************)
(* Link discovery (specification SpecLinks)                                *)
(***************************************************************************)
\* The link targets a seed page may hold: a document page, two seeds, a
\* folder's index.html, a pdf, a page of another pope.
LinkPool == <<UrlEn, search_urls[1], search_urls[8], FolderIndex, PdfLink, OtherPope>>

\* A site whose main English page (en.html) holds the links of LinkPool
\* chosen by picked, and whose English encyclicals index links to two
\* documents, to the Latin index and to itself.
LinkSite(picked) ==
  [pages |->
     (search_urls[8] :> Page("Leo XIII", "", "",
                             SelectSeq(LinkPool, LAMBDA l : l \in picked)))
     @@ (search_urls[1] :> Page("Encyclicals", "", "",
                                <<UrlEn, UrlLa, search_urls[2], search_urls[1]>>))
     @@ (UrlEn :> Page("Rerum Novarum", "15 May 1891", "", <<>>)),
   flaky |-> {search_urls[1]}]

LinkSites == {LinkSite(picked) : picked \in SUBSET Range(LinkPool)}

InitLinks ==
  /\ documents = None
  /\ clock = 1
  /\ calls = <<>>
  /\ ret = 0
  /\ file = NoFile
  /\ raised = ""
  /\ pc = "new"
  /\ saves = <<>>
  /\ writer = Closed
  /\ observed = None
  /\ site \in LinkSites
  /\ run = 0
  /\ document_urls = <<>>
  /\ processed = 0
  /\ new_docs = 0
  /\ updated_docs = 0
  /\ doc_info = None
  /\ failed = {}
  /\ first_p = NoParagraph
  /\ description = None

SpecLinks == InitLinks /\ [][NextCheckpoint]_vars

\* An index/listing page: a folder's index.html, or a page named
\* <name>.index.html as seven of the seeds are.
IsListingPage(u) ==
  /\ u.ext = "html"
  /\ u.name \in {"index"} \cup {search_urls[k].name : k \in 1..7}

\* The seeds whose fetch succeeded in the first run's discovery.
FetchedSeeds == {u \in Range(search_urls) \cap DOMAIN site.pages : u \notin failed}

\* C12: link discovery returns a link target found on a fetched seed page
\* if and only if it is under /leo-xiii/ (or /leo_xiii/), ends in .html, is
\* not an index/listing page and is not the seed it was found on; no
\* index/listing page is ever returned, and each accepted url once.
C12_LinkFilter ==
  (pc = "loop" /\ run = 1 /\ processed = 0) =>
    /\ \A u \in FetchedSeeds : \A k \in 1..Len(site.pages[u].links) :
         LET l == site.pages[u].links[k]
         IN  Contains(document_urls, l) <=>
               /\ \E j \in 1..Len(l.dirs) : l.dirs[j] \in {"leo-xiii", "leo_xiii"}
               /\ l.ext = "html"
               /\ ~IsListingPage(l)
               /\ l # u
    /\ \A i \in 1..Len(document_urls) : ~IsListingPage(document_urls[i])
    /\ \A i, j \in 1..Len(document_urls) :
         i # j => document_urls[i] # document_urls[j]

(***************************************************************************)
(* Properties of the loop of scrape_all_documents                          *)
(***************************************************************************)
\* C13: a pass of the loop whose fetch failed (extract_document_info gave
\* None) leaves the documents of the catalog as they were, counts the
\* candidate neither as new nor as updated, and writes the url nowhere: the
\* file keeps its documents or, when a save is due, gets the unchanged ones.
C13_FailedFetchIsSkip ==
  [][ (processed' = processed + 1 /\ doc_info' = None)
        => /\ Docs' = Docs
           /\ new_docs' = new_docs
           /\ updated_docs' = updated_docs
           /\ SnapshotDocs' \in {SnapshotDocs, Docs} ]_vars

\* The fetch of the 10th candidate has just failed, a save being due: nine
\* candidates are counted, three Documents are in the catalog and in the file.
C13_Witness ==
  /\ pc = "loop"
  /\ run = 1
  /\ processed = 10
  /\ doc_info = None
  /\ failed = {Doc(10)}
  /\ new_docs + updated_docs = 9
  /\ Len(saves) = 1
  /\ Len(Docs) = 3
  /\ SnapshotDocs = Docs

(***************************************************************************)
(* The description of extract_document_info (specification SpecDescribe)   *)
(***************************************************************************)
MaxTextLen == 260

MinDescription == 50

MaxDescription == 200

Ellipsis == <<".", ".", ".">>

Whitespace == {" ", "\n", "\t"}

\* A text of n characters, a sequence of one-character strings, whose
\* characters tell their position (mod 7) and which holds blanks inside.
Body(n) == [k \in 1..n |-> <<"a", "b", "c", " ", "d", "e", "f">>[(k % 7) + 1]]

\* What get_text() may give around the text of a paragraph.
Margins == {<<>>, <<" ">>, <<"\n", "\t">>}

Paragraphs ==
  {NoParagraph}
    \cup {[found |-> TRUE, text |-> l \o Body(n) \o r] :
            n \in 0..MaxTextLen, l \in Margins, r \in Margins}

Max(S) == CHOOSE i \in S : \A j \in S : j <= i

\* str.strip(): the text without its leading and trailing whitespace.
strip(text) ==
  LET inked == {k \in 1..Len(text) : text[k] \notin Whitespace}
  IN  IF inked = {} THEN <<>> ELSE SubSeq(text, Min(inked), Max(inked))

\* Lines 243-248 with the threshold taken as >= 50.
description_of_from_50(p) ==
  IF ~p.found THEN <<>>
  ELSE LET desc_text == strip(p.text)
       IN  IF Len(desc_text) >= MinDescription
           THEN IF Len(desc_text) > MaxDescription
                THEN Take(desc_text, MaxDescription) \o Ellipsis
                ELSE desc_text
           ELSE <<>>

\* Lines 243-248 of extract_document_info: the description for the first
\* <p> element p of the page.
description_of(p) ==
  IF ~p.found THEN <<>>
  ELSE LET desc_text == strip(p.text)
       IN  IF Len(desc_text) > MinDescription
           THEN IF Len(desc_text) > MaxDescription
                THEN Take(desc_text, MaxDescription) \o Ellipsis
                ELSE desc_text
           ELSE <<>>

InitDescribe ==
  /\ InitRun
  /\ site = SmallSite("Rerum Novarum", "Rerum Novarum", "Aeterni Patris")

\* extract_document_info on a page whose first paragraph is p.
Describe(p) ==
  /\ pc = "new"
  /\ description = None
  /\ first_p' = p
  /\ description' = [text |-> description_of(p)]
  /\ UNCHANGED <<storeVars, fileVars, runVars>>

NextDescribe == \E p \in Paragraphs : Describe(p)

SpecDescribe == InitDescribe /\ [][NextDescribe]_vars

\* C14: the description is empty when the stripped text of the first
\* paragraph has 50 or fewer characters, the whole stripped text when it
\* has 51 to 200, and its first 200 characters followed by "..." when it
\* has more (250 in: 203 out; 30 in: empty).
C14_DescriptionRule ==
  (description # None /\ first_p.found) =>
    LET trimmed == strip(first_p.text)
        n == Len(trimmed)
        d == description.text
    IN  /\ n <= 50 => d = <<>>
        /\ (51 <= n /\ n <= 200) => d = trimmed
        /\ n > 200 => /\ Len(d) = 203
                      /\ \A k \in 1..200 : d[k] = trimmed[k]
                      /\ \A k \in 201..203 : d[k] = "."
        /\ n = 250 => Len(d) = 200 + Len(Ellipsis)
        /\ n = 30 => d = <<>>

\* A paragraph of 250 characters between whitespace has been described in
\* 203 characters.
C14_Witness ==
  /\ description # None
  /\ first_p.found
  /\ Len(first_p.text) = 253
  /\ Len(strip(first_p.text)) = 250
  /\ Len(description.text) = 203

\* C15: a run starts with its three counters at 0; each pass of the loop
\* adds 1 to processed, adds 1 to new_docs + updated_docs exactly when the
\* extraction gave a record, counts it new exactly when the upsert appended
\* a Document and updated exactly when it did not; so the catalog grows by
\* new_docs over the run, and at its end processed is the number of
\* candidates.
C15_RunCounters ==
  [][ /\ (pc # "loop" /\ pc' = "loop")
          => processed' = 0 /\ new_docs' = 0 /\ updated_docs' = 0
      /\ (pc = "loop" /\ pc' # "crashed")
          => /\ Len(Docs') - new_docs' = Len(Docs) - new_docs
             /\ processed' - processed = IF pc' = "loop" THEN 1 ELSE 0
             /\ (new_docs' + updated_docs') - (new_docs + updated_docs)
                  = IF pc' = "loop" /\ doc_info' # None THEN 1 ELSE 0
             /\ new_docs' \in {new_docs, new_docs + 1}
             /\ updated_docs' \in {updated_docs, updated_docs + 1}
             /\ new_docs' = new_docs + 1 <=> Len(Docs') = Len(Docs) + 1
             /\ updated_docs' = updated_docs + 1
                  <=> (pc' = "loop" /\ doc_info' # None /\ Len(Docs') = Len(Docs))
      /\ pc' = "done" => processed' = Len(document_urls') ]_vars

\* A second run has ended: of its three candidates one was merged into a
\* Document of the first run, one was skipped and one was new.
C15_Witness ==
  /\ pc = "done"
  /\ run = 2
  /\ processed = 3
  /\ new_docs = 1
  /\ updated_docs = 1
  /\ Len(Docs) = 2

(***************************************************************************)
(* Properties of the catalog, continued (specification Spec)               *)
(***************************************************************************)
\* C16: an upsert looks for the candidate's title among the titles and for
\* its url among the "url" fields only. When neither is found it appends a
\* new Document, also when the url is in some Document's "urls" list; when
\* several Documents match, the first in catalog order is returned and is
\* the only one changed.
C16_ResolveByPrimaryUrl ==
  [][ calls' # calls =>
        LET c == Last(calls')
            hits == {i \in 1..Len(Docs) : Docs[i].title = c.title \/ Docs[i].url = c.url}
        IN  /\ hits = {} => /\ Len(Docs') = Len(Docs) + 1
                            /\ ret' = Len(Docs')
                            /\ Docs'[ret'].title = c.title
                            /\ Docs'[ret'].url = c.url
            /\ hits # {} => /\ Len(Docs') = Len(Docs)
                            /\ ret' = Min(hits)
                            /\ \A i \in 1..Len(Docs) : i # Min(hits) => Docs'[i] = Docs[i] ]_vars

\* The third upsert brought, under a new title, a url that is in the first
\* Document's "urls" list but is not its "url": a second Document was
\* appended for it.
C16_Witness ==
  /\ Len(calls) = 3
  /\ Len(Docs) = 2
  /\ ret = 2
  /\ Contains(alternateUrls(Docs[1]), Last(calls).url)
  /\ Docs[1].url # Last(calls).url
  /\ Docs[1].title # Last(calls).title
  /\ Docs[2].url = Last(calls).url

(***************************************************************************)
(* Properties of save_data within a run (specification SpecCheckpoint)     *)
(***************************************************************************)
\* C17: right after every save_data the file holds a catalog whose
\* metadata.total_documents is the number of its Documents and whose
\* Documents are those of the catalog in memory at that moment, in the
\* same order.
C17_SnapshotConsistency ==
  [][ Len(saves') = Len(saves) + 1
        => /\ file'.exists
           /\ IsCatalogText(file'.text)
           /\ LET snapshot == json_load(file'.text).value
              IN  /\ snapshot.metadata.total_documents = Len(snapshot.documents)
                  /\ snapshot.documents = Docs'
                  /\ snapshot = documents' ]_vars

\* The save after the 20th candidate of a run has just been made: the file
\* holds the three Documents of the catalog and counts three.
C17_Witness ==
  /\ pc = "loop"
  /\ processed = 20
  /\ saves = <<SaveAt(10, FALSE), SaveAt(20, FALSE)>>
  /\ Len(Docs) = 3
  /\ SnapshotDocs = Docs
  /\ json_load(file.text).value.metadata.total_documents = 3

\* C18: no upsert removes or reorders Documents or changes a title. An
\* upsert that matches leaves the length of the catalog as it was, each
\* Document at its place under its title and added_date; one that does
\* not match appends exactly one Document at the end, the Documents before
\* it unchanged.
C18_AppendOnly ==
  [][ calls' # calls =>
        /\ Len(Docs') \in {Len(Docs), Len(Docs) + 1}
        /\ \A i \in 1..Len(Docs) : /\ Docs'[i].title = Docs[i].title
                                   /\ Docs'[i].added_date = Docs[i].added_date
        /\ Len(Docs') = Len(Docs) <=> ret' \in 1..Len(Docs)
        /\ Len(Docs') = Len(Docs) + 1
             => /\ Take(Docs', Len(Docs)) = Docs
                /\ ret' = Len(Docs')
                /\ Docs'[ret'].title = Last(calls').title ]_vars

\* After two appends the third upsert matched the first Document and gave
\* it a second url: both Documents are where they were.
C18_Witness ==
  /\ Len(calls) = 3
  /\ Len(Docs) = 2
  /\ ret = 1
  /\ Docs[1].title = calls[1].title
  /\ Docs[2].title = calls[2].title
  /\ Docs[1].title # Docs[2].title
  /\ Docs[1].url = calls[3].url
  /\ Len(alternateUrls(Docs[1])) = 2

====
